---- MODULE Spec2Model ----
(***************************************************************************)
(* The lexical front-end of rs-php-rt: the Cursor over a source buffer     *)
(* (lex/cursor.rs), the Keyword table (ast/keyword.rs) and the Lexer that  *)
(* drives the cursor through its battery of recognizers (lex/mod.rs).      *)
(*                                                                         *)
(* A character is a one-character string, a Rust String or &str is a       *)
(* sequence of characters, Option<T> is a sequence of length <= 1          *)
(* (None == <<>>, Some(x) == <<x>>).                                       *)
(*                                                                         *)
(* Cursor::nth_char, first and second answer a Result: Ok(character), or *)
(* the UnexpectedEof error past the end of the buffer.  lex/mod.rs uses    *)
(* what they answer as a char: it matches it against character literals    *)
(* and tests `== END_OF_FILE` for the end of input.  char_of is that use:  *)
(* the character looked at, END_OF_FILE when the lookahead failed.         *)
(***************************************************************************)
EXTENDS Integers, Sequences, FiniteSets, TLC

VARIABLES
    src,      \* the source text handed to the lexer
    cursor,   \* the Cursor: [ilen, chars, prev, index]
    calls,    \* the driver's log of next() calls: [pre, ret, post] each
    status,   \* "ready", or "panicked" once a call to next() panicked
    kwval     \* keyword table probe: the values computed so far

vars == <<src, cursor, calls, status, kwval>>

\* ---------------------------------------------------------------- bounds

\* Every source over ShortAlphabet up to this length is lexed.
MaxLen == 3
\* Identifier tails of up to this length are appended to each keyword.
MaxTail == 1
\* The driver calls next() at most this many times on one source.
MaxCalls == 4
\* Applications of as_str / from_str chained on one probe value.
MaxKwSteps == 2
\* The largest amount handed to peek_inc and nth_char.
MaxAmount == 2

\* ------------------------------------------------------------ characters

None == <<>>
Some(x) == <<x>>

\* cursor.rs:3  pub const END_OF_FILE: char = '\0';
END_OF_FILE == "NUL"

\* The letters and digits sources are made of: every lower-case letter, and
\* three capitals and three digits standing for the rest.
Lower == {"a", "b", "c", "d", "e", "f", "g", "h", "i", "j", "k", "l", "m",
          "n", "o", "p", "q", "r", "s", "t", "u", "v", "w", "x", "y", "z"}
Upper == {"A", "T", "Z"}
Digit == {"0", "1", "9"}
WhitespaceChar == {" ", "\t", "\n", "\r"}
OperatorChar == {"+", "-", "*", "/", "%", "=", "<", ">", "&", "|", "^", "~"}
\* The backtick character, which a TLA+ string cannot hold.
Backtick == "BACKTICK"

QuoteChar == {"\"", "'", Backtick}
ReservedChar == {"[", "]", "(", ")", "{", "}", ";", ",", "\\", ".", "$"}
\* Characters no recognizer accepts, the NUL character among them.
OtherChar == {"?", "!", "#", "@", END_OF_FILE}

\* The characters a source buffer is made of.
Char == Lower \cup Upper \cup Digit \cup {"_"} \cup WhitespaceChar
        \cup OperatorChar \cup QuoteChar \cup {":"} \cup ReservedChar
        \cup OtherChar

\* char::is_whitespace, char::is_alphabetic, char::is_alphanumeric and
\* char::is_digit(10) on Char \cup {END_OF_FILE}.
is_whitespace(c) == c \in WhitespaceChar
is_alphabetic(c) == c \in Lower \cup Upper
is_digit(c) == c \in Digit
is_alphanumeric(c) == is_alphabetic(c) \/ is_digit(c)

\* -------------------------------------------------------- keyword table

MAX_KEYWORD_LENGTH == 11

Keyword ==
    {"Abstract", "And", "As", "Break", "Case", "Catch",
     "Class", "Clone", "Const", "Continue", "Declare", "Default",
     "Do", "Else", "Elseif", "EndDeclare", "EndFor", "EndForEach",
     "EndIf", "EndSwitch", "EndWhile", "Extends", "Final", "Finally",
     "Fn", "For", "ForEach", "Function", "Global", "GoTo",
     "If", "Implements", "Include", "IncludeOnce", "InstanceOf", "InsteadOf",
     "Interface", "Match", "Namespace", "New", "Or", "Private",
     "Protected", "Public", "ReadOnly", "Require", "RequireOnce", "Return",
     "Static", "Switch", "Throw", "Trait", "Try", "Use",
     "Var", "While", "Yield", "From"}

AsStrArms ==
    <<<<"Abstract", <<"a", "b", "s", "t", "r", "a", "c", "t">>>>,
      <<"And", <<"a", "n", "d">>>>,
      <<"As", <<"a", "s">>>>,
      <<"Break", <<"b", "r", "e", "a", "k">>>>,
      <<"Case", <<"c", "a", "s", "e">>>>,
      <<"Catch", <<"c", "a", "t", "c", "h">>>>,
      <<"Class", <<"c", "l", "a", "s", "s">>>>,
      <<"Clone", <<"c", "l", "o", "n", "e">>>>,
      <<"Const", <<"c", "o", "n", "s", "t">>>>,
      <<"Continue", <<"c", "o", "n", "t", "i", "n", "u", "e">>>>,
      <<"Declare", <<"d", "e", "c", "l", "a", "r", "e">>>>,
      <<"Default", <<"d", "e", "f", "a", "u", "l", "t">>>>,
      <<"Do", <<"d", "o">>>>,
      <<"Else", <<"e", "l", "s", "e">>>>,
      <<"Elseif", <<"e", "l", "s", "e", "i", "f">>>>,
      <<"EndDeclare", <<"e", "n", "d", "d", "e", "c", "l", "a", "r", "e">>>>,
      <<"EndFor", <<"e", "n", "d", "f", "o", "r">>>>,
      <<"EndForEach", <<"e", "n", "d", "f", "o", "r", "e", "a", "c", "h">>>>,
      <<"EndIf", <<"e", "n", "d", "i", "f">>>>,
      <<"EndSwitch", <<"e", "n", "d", "s", "w", "i", "t", "c", "h">>>>,
      <<"EndWhile", <<"e", "n", "d", "w", "h", "i", "l", "e">>>>,
      <<"Extends", <<"e", "x", "t", "e", "n", "d", "s">>>>,
      <<"Final", <<"f", "i", "n", "a", "l">>>>,
      <<"Finally", <<"f", "i", "n", "a", "l", "l", "y">>>>,
      <<"Fn", <<"f", "n">>>>,
      <<"For", <<"f", "o", "r">>>>,
      <<"ForEach", <<"f", "o", "r", "e", "a", "c", "h">>>>,
      <<"Function", <<"f", "u", "n", "c", "t", "i", "o", "n">>>>,
      <<"Global", <<"g", "l", "o", "b", "a", "l">>>>,
      <<"GoTo", <<"g", "o", "t", "o">>>>,
      <<"If", <<"i", "f">>>>,
      <<"Implements", <<"i", "m", "p", "l", "e", "m", "e", "n", "t", "s">>>>,
      <<"Include", <<"i", "n", "c", "l", "u", "d", "e">>>>,
      <<"IncludeOnce", <<"i", "n", "c", "l", "u", "d", "e", "_", "o", "n", "c", "e">>>>,
      <<"InstanceOf", <<"i", "n", "s", "t", "a", "n", "c", "e", "o", "f">>>>,
      <<"InsteadOf", <<"i", "n", "s", "t", "e", "a", "d", "o", "f">>>>,
      <<"Interface", <<"i", "n", "t", "e", "r", "f", "a", "c", "e">>>>,
      <<"Match", <<"m", "a", "t", "c", "h">>>>,
      <<"Namespace", <<"n", "a", "m", "e", "s", "p", "a", "c", "e">>>>,
      <<"New", <<"n", "e", "w">>>>,
      <<"Or", <<"o", "r">>>>,
      <<"Private", <<"p", "r", "i", "v", "a", "t", "e">>>>,
      <<"Protected", <<"p", "r", "o", "t", "e", "c", "t", "e", "d">>>>,
      <<"Public", <<"p", "u", "b", "l", "i", "c">>>>,
      <<"ReadOnly", <<"r", "e", "a", "d", "o", "n", "l", "y">>>>,
      <<"Require", <<"r", "e", "q", "u", "i", "r", "e">>>>,
      <<"RequireOnce", <<"r", "e", "q", "u", "i", "r", "e", "_", "o", "n", "c", "e">>>>,
      <<"Return", <<"r", "e", "t", "u", "r", "n">>>>,
      <<"Static", <<"s", "t", "a", "t", "i", "c">>>>,
      <<"Switch", <<"s", "w", "i", "t", "c", "h">>>>,
      <<"Throw", <<"t", "h", "r", "o", "w">>>>,
      <<"Trait", <<"t", "r", "a", "i", "t">>>>,
      <<"Try", <<"t", "r", "y">>>>,
      <<"Use", <<"u", "s", "e">>>>,
      <<"Var", <<"v", "a", "r">>>>,
      <<"While", <<"w", "h", "i", "l", "e">>>>,
      <<"Yield", <<"y", "i", "e", "l", "d">>>>,
      <<"From", <<"f", "r", "o", "m">>>>>>

FromStrArms ==
    <<<<<<"a", "b", "s", "t", "r", "a", "c", "t">>, "Abstract">>,
      <<<<"a", "n", "d">>, "And">>,
      <<<<"a", "s">>, "As">>,
      <<<<"b", "r", "e", "a", "k">>, "Break">>,
      <<<<"c", "a", "s", "e">>, "Case">>,
      <<<<"c", "a", "t", "c", "h">>, "Catch">>,
      <<<<"c", "l", "a", "s", "s">>, "Class">>,
      <<<<"c", "l", "o", "n", "e">>, "Clone">>,
      <<<<"c", "o", "n", "s", "t">>, "Const">>,
      <<<<"c", "o", "n", "t", "i", "n", "u", "e">>, "Continue">>,
      <<<<"d", "e", "c", "l", "a", "r", "e">>, "Declare">>,
      <<<<"d", "e", "f", "a", "u", "l", "t">>, "Default">>,
      <<<<"d", "o">>, "Do">>,
      <<<<"e", "l", "s", "e">>, "Else">>,
      <<<<"e", "l", "s", "e", "i", "f">>, "Elseif">>,
      <<<<"e", "n", "d", "d", "e", "c", "l", "a", "r", "e">>, "EndDeclare">>,
      <<<<"e", "n", "d", "f", "o", "r">>, "EndFor">>,
      <<<<"e", "n", "d", "f", "o", "r", "e", "a", "c", "h">>, "EndForEach">>,
      <<<<"e", "n", "d", "i", "f">>, "EndIf">>,
      <<<<"e", "n", "d", "s", "w", "i", "t", "c", "h">>, "EndSwitch">>,
      <<<<"e", "n", "d", "w", "h", "i", "l", "e">>, "EndWhile">>,
      <<<<"e", "x", "t", "e", "n", "d", "s">>, "Extends">>,
      <<<<"f", "i", "n", "a", "l">>, "Final">>,
      <<<<"f", "i", "n", "a", "l", "l", "y">>, "Finally">>,
      <<<<"f", "n">>, "Fn">>,
      <<<<"f", "o", "r">>, "For">>,
      <<<<"f", "o", "r", "e", "a", "c", "h">>, "ForEach">>,
      <<<<"f", "u", "n", "c", "t", "i", "o", "n">>, "Function">>,
      <<<<"g", "l", "o", "b", "a", "l">>, "Global">>,
      <<<<"g", "o", "t", "o">>, "GoTo">>,
      <<<<"i", "f">>, "If">>,
      <<<<"i", "m", "p", "l", "e", "m", "e", "n", "t", "s">>, "Implements">>,
      <<<<"i", "n", "c", "l", "u", "d", "e">>, "Include">>,
      <<<<"i", "n", "c", "l", "u", "d", "e", "_", "o", "n", "c", "e">>, "IncludeOnce">>,
      <<<<"i", "n", "s", "t", "a", "n", "c", "e", "o", "f">>, "InstanceOf">>,
      <<<<"i", "n", "s", "t", "e", "a", "d", "o", "f">>, "InsteadOf">>,
      <<<<"i", "n", "t", "e", "r", "f", "a", "c", "e">>, "Interface">>,
      <<<<"m", "a", "t", "c", "h">>, "Match">>,
      <<<<"n", "a", "m", "e", "s", "p", "a", "c", "e">>, "Namespace">>,
      <<<<"n", "e", "w">>, "New">>,
      <<<<"o", "r">>, "Or">>,
      <<<<"p", "r", "i", "v", "a", "t", "e">>, "Private">>,
      <<<<"p", "r", "o", "t", "e", "c", "t", "e", "d">>, "Protected">>,
      <<<<"p", "u", "b", "l", "i", "c">>, "Public">>,
      <<<<"r", "e", "a", "d", "o", "n", "l", "y">>, "ReadOnly">>,
      <<<<"r", "e", "q", "u", "i", "r", "e">>, "Require">>,
      <<<<"r", "e", "q", "u", "i", "r", "e", "_", "o", "n", "c", "e">>, "RequireOnce">>,
      <<<<"r", "e", "t", "u", "r", "n">>, "Return">>,
      <<<<"s", "t", "a", "t", "i", "c">>, "Static">>,
      <<<<"s", "w", "i", "t", "c", "h">>, "Switch">>,
      <<<<"t", "h", "r", "o", "w">>, "Throw">>,
      <<<<"t", "r", "a", "i", "t">>, "Trait">>,
      <<<<"t", "r", "y">>, "Try">>,
      <<<<"u", "s", "e">>, "Use">>,
      <<<<"v", "a", "r">>, "Var">>,
      <<<<"w", "h", "i", "l", "e">>, "While">>,
      <<<<"y", "i", "e", "l", "d">>, "Yield">>,
      <<<<"f", "r", "o", "m">>, "From">>>>

RECURSIVE FirstArm(_, _, _, _)
\* The index of the first arm of a `match` whose pattern (component col)
\* equals x, 0 when no arm matches.
FirstArm(arms, col, x, i) ==
    IF i > Len(arms) THEN 0
    ELSE IF arms[i][col] = x THEN i
    ELSE FirstArm(arms, col, x, i + 1)

\* Keyword::as_str
as_str(k) == AsStrArms[FirstArm(AsStrArms, 1, k, 1)][2]

\* Result<Keyword, KeywordErr>
Ok(k) == <<"Ok", k>>
KeywordErr == <<"Err", "KeywordErr">>

\* from_str with the arm of the keyword declared last, "from", left out.
from_str_without_from(s) ==
    LET i == FirstArm(FromStrArms, 1, s, 1)
    IN  IF i = 0 \/ FromStrArms[i][2] = "From" THEN KeywordErr
        ELSE Ok(FromStrArms[i][2])

\* <Keyword as FromStr>::from_str
from_str(s) ==
    LET i == FirstArm(FromStrArms, 1, s, 1)
    IN  IF i = 0 THEN KeywordErr ELSE Ok(FromStrArms[i][2])

\* ---------------------------------------------------------------- Cursor

\* Cursor::new
new(input) == [ilen |-> Len(input), chars |-> input, prev |-> END_OF_FILE,
               index |-> 0]

\* Cursor::is_eof
is_eof(c) == c.chars = <<>>

\* Cursor::peek: consumes one character; the character that empties the
\* buffer is consumed (and kept in prev) but answered None, index unmoved.
peek(c) ==
    IF c.chars = <<>> THEN [cur |-> c, ret |-> None]
    ELSE LET ch == Head(c.chars)
             c1 == [c EXCEPT !.chars = Tail(c.chars), !.prev = ch]
         IN  IF is_eof(c1) THEN [cur |-> c1, ret |-> None]
             ELSE [cur |-> [c1 EXCEPT !.index = @ + 1], ret |-> Some(ch)]

\* Error::from(ErrorKind::UnexpectedEof)
UnexpectedEof == <<"Err", "UnexpectedEof">>

\* Cursor::nth_char: Ok(character), or the end-of-stream error when the
\* position does not exist.
nth_char(c, amt) ==
    IF amt < Len(c.chars) THEN Ok(c.chars[amt + 1]) ELSE UnexpectedEof

\* Cursor::first, Cursor::second
first(c) == nth_char(c, 0)
second(c) == nth_char(c, 1)

\* The answer of a lookahead used as a char, as the recognizers of
\* lex/mod.rs use it: the character of Ok, END_OF_FILE for the error.
char_of(r) == IF r = UnexpectedEof THEN END_OF_FILE ELSE r[2]

\* The end-of-input test of eat_keyword and eat_boolean on a looked-ahead
\* character: `next_char == END_OF_FILE`.
is_end_of_file(next_char) == next_char = END_OF_FILE

\* Cursor::get_pos, Cursor::get_prev, Cursor::eaten
get_pos(c) == c.index
get_prev(c) == c.prev
eaten(c) == c.ilen - Len(c.chars)

RECURSIVE peek_inc_loop(_, _, _)
peek_inc_loop(c, i, x) ==
    IF ~is_eof(c) /\ i <= x THEN peek_inc_loop(peek(c).cur, i + 1, x)
    ELSE c

\* Cursor::peek_inc: peeks while i <= x, so up to x + 1 times.
peek_inc(c, x) == peek_inc_loop(c, 0, x)

\* Cursor::unpeek: chars.nth(eaten() - 1), so it consumes eaten() more
\* characters and returns the last of them, END_OF_FILE when fewer remain;
\* prev and index stay.  On a cursor that has consumed nothing the usize
\* subtraction overflows: a panic in a build with overflow checks, and
\* nth(usize::MAX), which empties the buffer, in a build without.  The
\* set of the outcomes.
unpeek(c) ==
    IF eaten(c) = 0
    THEN {[cur |-> c, ret |-> END_OF_FILE, panic |-> TRUE],
          [cur |-> [c EXCEPT !.chars = <<>>], ret |-> END_OF_FILE,
           panic |-> FALSE]}
    ELSE IF eaten(c) <= Len(c.chars)
    THEN {[cur |-> [c EXCEPT !.chars = SubSeq(@, eaten(c) + 1, Len(@))],
           ret |-> c.chars[eaten(c)], panic |-> FALSE]}
    ELSE {[cur |-> [c EXCEPT !.chars = <<>>], ret |-> END_OF_FILE,
           panic |-> FALSE]}

\* Cursor::peek_get_pos
peek_get_pos(c) == [cur |-> peek(c).cur, ret |-> peek(c).cur.index]

\* Cursor::ipeek_get_pos
ipeek_get_pos(c, x) == [cur |-> peek_inc(c, x), ret |-> peek_inc(c, x).index]

\* Option::unwrap_or
unwrap_or(opt, dflt) == IF opt = None THEN dflt ELSE opt[1]

RECURSIVE eat_while_loop(_, _, _)
eat_while_loop(c, pred, segment) ==
    IF ~is_eof(c) /\ first(c)[2] \in pred
    THEN LET p == peek(c)
         IN  eat_while_loop(p.cur, pred,
                            Append(segment, unwrap_or(p.ret, END_OF_FILE)))
    ELSE [cur |-> c, seg |-> segment]

\* Cursor::eat_while; the predicate is the set of characters it accepts.
eat_while(c, pred) == eat_while_loop(c, pred, <<>>)

\* ----------------------------------------------------------------- Lexer

\* The token! macro with the ends of the range exchanged.
Token_range_reversed(start, end, t, v) ==
    Some([kind |-> t, start |-> end, end |-> start, text |-> v])

\* Token(TokenType, Range<usize>, Option<String>), the token! macro
Token(start, end, t, v) ==
    Some([kind |-> t, start |-> start, end |-> end, text |-> v])

RECURSIVE eat(_)

\* The closure eat_comment hands to eat_while_cursor.  It is called with
\* ch == cursor.first(), the character not yet consumed.
block_comment_pred(c, ch) ==
    IF ch = "*"
    THEN IF char_of(first(c)) = "/"
         THEN [cur |-> eat(c).cur, ok |-> FALSE]
         ELSE [cur |-> c, ok |-> TRUE]
    ELSE [cur |-> c, ok |-> TRUE]

RECURSIVE eat_while_cursor_loop(_, _)
eat_while_cursor_loop(c, segment) ==
    IF is_eof(c) THEN [cur |-> c, seg |-> segment]
    ELSE LET q == block_comment_pred(c, first(c)[2])
         IN  IF q.ok
             THEN LET p == peek(q.cur)
                  IN  eat_while_cursor_loop(
                          p.cur, Append(segment, unwrap_or(p.ret, END_OF_FILE)))
             ELSE [cur |-> q.cur, seg |-> segment]

\* Cursor::eat_while_cursor, with the block comment closure as predicate.
eat_while_cursor(c) == eat_while_cursor_loop(c, <<>>)

\* eat_comment taking every "/" for the start of a line comment, without
\* looking at the character after it.
eat_comment_any_slash(c) ==
    IF char_of(first(c)) = "/"
    THEN LET r == eat_while(c, Char \ {"\n"})
         IN  [cur |-> r.cur, ret |-> Some(r.seg)]
    ELSE [cur |-> c, ret |-> None]

\* Cursor::eat_comment
eat_comment(c) ==
    IF char_of(first(c)) = "/"
    THEN IF char_of(second(c)) = "/"
         THEN LET r == eat_while(c, Char \ {"\n"})
              IN  [cur |-> r.cur, ret |-> Some(r.seg)]
         ELSE IF char_of(second(c)) = "*"
         THEN LET r == eat_while_cursor(c)
              IN  [cur |-> r.cur, ret |-> Some(r.seg)]
         ELSE [cur |-> c, ret |-> None]
    ELSE [cur |-> c, ret |-> None]

\* Cursor::eat_whitespace
eat_whitespace(c) ==
    LET r == eat_while(c, {ch \in Char : is_whitespace(ch)})
    IN  IF r.seg = <<>> THEN [cur |-> r.cur, ret |-> None]
        ELSE [cur |-> r.cur, ret |-> Some(r.seg)]

\* Cursor::eat_identifier
eat_identifier(c) ==
    IF char_of(first(c)) = "_" \/ char_of(first(c)) \in Lower \/ char_of(first(c)) \in Upper
    THEN LET r == eat_while(c, {ch \in Char : ~is_whitespace(ch)
                                    /\ (is_alphanumeric(ch) \/ ch = "_")})
         IN  [cur |-> r.cur, ret |-> Some(r.seg)]
    ELSE [cur |-> c, ret |-> None]

\* Cursor::eat_number: the digits are scanned, the value is always Int(0).
eat_number(c) ==
    IF char_of(first(c)) \in Digit
    THEN LET r == eat_while(c, {ch \in Char : is_digit(ch) \/ ch = "."})
         IN  [cur |-> r.cur, ret |-> Some(<<"Int", "0">>)]
    ELSE [cur |-> c, ret |-> None]

RECURSIVE eat_keyword_loop(_, _, _)
eat_keyword_loop(c, i, segment) ==
    IF i >= MAX_KEYWORD_LENGTH THEN [cur |-> c, ret |-> None]
    ELSE LET next_char == char_of(nth_char(c, i))
             segment1 == Append(segment, next_char)
             keyword == from_str(segment1)
         IN  IF is_end_of_file(next_char) THEN [cur |-> c, ret |-> None]
             ELSE IF keyword[1] = "Ok"
             THEN IF is_whitespace(char_of(nth_char(c, i + 1)))
                  THEN [cur |-> peek_inc(c, i), ret |-> Some(keyword[2])]
                  ELSE [cur |-> c, ret |-> None]
             ELSE eat_keyword_loop(c, i + 1, segment1)

\* Cursor::eat_keyword
eat_keyword(c) == eat_keyword_loop(c, 0, <<>>)

\* Cursor::eat_operator
eat_operator(c) ==
    IF char_of(first(c)) \in OperatorChar
    THEN LET p == peek(c)
         IN  [cur |-> p.cur, ret |-> Some(<<get_prev(p.cur)>>)]
    ELSE IF char_of(first(c)) = "o"
    THEN IF char_of(nth_char(c, 1)) = "r"
         THEN [cur |-> peek_inc(c, 2), ret |-> Some(<<"o", "r">>)]
         ELSE [cur |-> c, ret |-> None]
    ELSE IF char_of(first(c)) = "a"
    THEN IF char_of(nth_char(c, 1)) = "n" /\ char_of(nth_char(c, 2)) = "d"
         THEN [cur |-> peek_inc(c, 3), ret |-> Some(<<"a", "n", "d">>)]
         ELSE [cur |-> c, ret |-> None]
    ELSE [cur |-> c, ret |-> None]

\* The literals eat_boolean compares against.
BooleanValues == << <<"t", "r", "u", "e">>, <<"f", "a", "l", "s", "e">> >>

RECURSIVE eat_boolean_chars(_, _, _, _)
\* The inner loop of eat_boolean over the characters of one value; done
\* is FALSE when the loop ends without returning from eat_boolean.
eat_boolean_chars(c, value, i, segment) ==
    IF i >= Len(value) THEN [done |-> FALSE, cur |-> c, ret |-> None]
    ELSE LET next_char == char_of(nth_char(c, i))
             segment1 == Append(segment, next_char)
         IN  IF is_end_of_file(next_char)
             THEN [done |-> TRUE, cur |-> c, ret |-> None]
             ELSE IF next_char # value[i + 1]
             THEN eat_boolean_chars(c, value, i + 1, segment)
             ELSE IF segment1 = value
             THEN [done |-> TRUE, cur |-> peek_inc(c, i),
                   ret |-> Some(segment1)]
             ELSE eat_boolean_chars(c, value, i + 1, segment1)

RECURSIVE eat_boolean_values(_, _)
\* The outer loop of eat_boolean over "true", "false".
eat_boolean_values(c, j) ==
    IF j > Len(BooleanValues) THEN [cur |-> c, ret |-> None]
    ELSE LET r == eat_boolean_chars(c, BooleanValues[j], 0, <<>>)
         IN  IF r.done THEN [cur |-> r.cur, ret |-> r.ret]
             ELSE eat_boolean_values(c, j + 1)

\* Cursor::eat_boolean: the alphabetic run is consumed before the literals
\* are compared with what follows it.
eat_boolean(c) ==
    LET v == eat_while(c, {ch \in Char : is_alphabetic(ch)})
    IN  eat_boolean_values(v.cur, 1)

\* Cursor::eat_string; panic is TRUE when unwrap() meets None or the
\* unreachable!() arm is reached.
eat_string(c) ==
    IF char_of(first(c)) # "\"" /\ char_of(first(c)) # "'" /\ char_of(first(c)) # Backtick
    THEN [cur |-> c, ret |-> None, panic |-> FALSE]
    ELSE LET p == peek(c)
         IN  IF p.ret = None
             THEN [cur |-> p.cur, ret |-> None, panic |-> TRUE]
             ELSE IF p.ret[1] = Backtick
             THEN [cur |-> p.cur, ret |-> None, panic |-> TRUE]
             ELSE LET variant == IF p.ret[1] = "\"" THEN "Double"
                                 ELSE "Single"
                      r == eat_while(p.cur, Char \ {p.ret[1]})
                  IN  [cur |-> r.cur, ret |-> Some(<<variant, r.seg>>),
                       panic |-> FALSE]

\* Cursor::eat_value_reserved
eat_value_reserved(c) ==
    IF char_of(first(c)) = ":"
    THEN IF char_of(second(c)) = ":"
         THEN [cur |-> peek_inc(c, 1),
               ret |-> Some(<< <<"Accessor", "StaticMember">>, <<":", ":">> >>)]
         ELSE [cur |-> peek(c).cur, ret |-> Some(<< <<"Colon">>, <<":">> >>)]
    ELSE [cur |-> c, ret |-> None]

\* Cursor::eat_reserved
eat_reserved(c) ==
    CASE char_of(first(c)) = "[" -> Some(<<"LeftBracket">>)
      [] char_of(first(c)) = "]" -> Some(<<"RightBracket">>)
      [] char_of(first(c)) = "(" -> Some(<<"LeftParenthesis">>)
      [] char_of(first(c)) = ")" -> Some(<<"RightParenthesis">>)
      [] char_of(first(c)) = "{" -> Some(<<"LeftBrace">>)
      [] char_of(first(c)) = "}" -> Some(<<"RightBrace">>)
      [] char_of(first(c)) = ";" -> Some(<<"EOS">>)
      [] char_of(first(c)) = "," -> Some(<<"Comma">>)
      [] char_of(first(c)) = "\\" -> Some(<<"Backslash">>)
      [] char_of(first(c)) = "." -> Some(<<"Dot">>)
      [] char_of(first(c)) = "$" -> Some(<<"Variable">>)
      [] OTHER -> None

\* What a call of Cursor::eat leaves: the cursor, the Option<Token> it
\* returns, and whether it panicked instead of returning.
Returned(c, t) == [cur |-> c, ret |-> t, panic |-> FALSE]
Panicked(c) == [cur |-> c, ret |-> None, panic |-> TRUE]

\* Cursor::eat: the recognizers in priority order, each on the cursor the
\* ones before it left.
eat(c) ==
    LET start_pos == get_pos(c)
        ws == eat_whitespace(c)
        cm == eat_comment(ws.cur)
        op == eat_operator(cm.cur)
        kw == eat_keyword(op.cur)
        bo == eat_boolean(kw.cur)
        id == eat_identifier(bo.cur)
        nu == eat_number(id.cur)
        st == eat_string(nu.cur)
        vr == eat_value_reserved(st.cur)
        rs == eat_reserved(vr.cur)
    IN  IF ws.ret # None
        THEN Returned(ws.cur, Token(start_pos, get_pos(ws.cur),
                                    <<"Whitespace">>, ws.ret))
        ELSE IF cm.ret # None
        THEN Returned(cm.cur, Token(start_pos, get_pos(cm.cur),
                                    <<"Comment">>, cm.ret))
        ELSE IF op.ret # None
        THEN Returned(op.cur, Token(start_pos, get_pos(op.cur),
                                    <<"Operator">>, op.ret))
        ELSE IF kw.ret # None
        THEN Returned(kw.cur, Token(start_pos, get_pos(kw.cur),
                                    <<"Keyword", kw.ret[1]>>, None))
        ELSE IF bo.ret # None
        THEN Returned(bo.cur, Token(start_pos, get_pos(bo.cur),
                                    <<"Boolean">>, bo.ret))
        ELSE IF id.ret # None
        THEN Returned(id.cur, Token(start_pos, get_pos(id.cur),
                                    <<"Identifier">>, id.ret))
        ELSE IF nu.ret # None
        THEN Returned(nu.cur, Token(start_pos, get_pos(nu.cur),
                                    <<"NumericalLit">> \o nu.ret[1], None))
        ELSE IF st.panic
        THEN Panicked(st.cur)
        ELSE IF st.ret # None
        THEN LET c1 == peek(st.cur).cur
             IN  Returned(c1, Token(start_pos, get_pos(c1),
                                    <<"StringLit", st.ret[1][1]>>,
                                    Some(st.ret[1][2])))
        ELSE IF vr.ret # None
        THEN Returned(vr.cur, Token(start_pos, get_pos(vr.cur),
                                    vr.ret[1][1], Some(vr.ret[1][2])))
        ELSE IF rs # None
        THEN LET c1 == peek(vr.cur).cur
             IN  Returned(c1, Token(start_pos, get_pos(c1), rs[1], None))
        ELSE Returned(peek(vr.cur).cur, None)

\* Lexer::next: Ok(Some(token)) or Ok(None); no path returns Err.
next(c) == eat(c)

\* ----------------------------------------------------------- the sources

RECURSIVE SeqsUpTo(_, _)
\* Every sequence over S of length at most n.
SeqsUpTo(S, n) ==
    IF n = 0 THEN {<<>>}
    ELSE LET shorter == SeqsUpTo(S, n - 1)
         IN  shorter \cup {Append(s, x) : s \in shorter, x \in S}

\* One representative of each class of character the recognizers tell
\* apart.
ShortAlphabet == {" ", "\n", "/", "*", "o", "r", "_", "1", "'", Backtick, ":", "?"}

ShortSources == SeqsUpTo(ShortAlphabet, MaxLen)

\* Every character alone, and followed by one space.
SingleCharSources == {<<ch>> : ch \in Char} \cup {<<ch, " ">> : ch \in Char}

\* Characters that continue an identifier.
TailChar == {"e", "_", "1"}

\* Every keyword spelling, bare or continued by an identifier tail,
\* followed by nothing or one whitespace character.
KeywordSources ==
    {as_str(k) \o t \o w :
        k \in Keyword,
        t \in SeqsUpTo(TailChar, MaxTail),
        w \in {<<>>, <<" ">>, <<"\n">>}}

\* The inputs the specification names, and others of their kinds.
ExampleSources ==
    { <<"?">>,
      <<Backtick, "a", Backtick>>,
      <<"f", "o", "r", "e", "s", "t", " ">>,
      <<"f", "o", "r", "e", "a", "c", "h", " ">>,
      <<"i", "f", "f", "o", "o", " ">>,
      <<"i", "f", " ">>,
      <<"'", "a", "b", "c", "'">>,
      <<"'", "a", "b", "c", "'", " ">>,
      <<"\"", "a", "'", "c", "\"">>,
      <<"/", "/", " ", "h", "e", "l", "l", "o", "\n", "x">>,
      <<"/", "/", "a", "\n", "_", "x">>,
      <<"/", "*", "a", "*", "/", "x", " ">>,
      <<"t", "r", "u", "e", " ">>,
      <<"f", "a", "l", "s", "e">>,
      <<"T", "r", "u", "e", " ">>,
      <<"o", "r", " ", "x">>,
      <<"a", "n", "d", " ", "x">>,
      <<"$", "x", " ", "=", " ", "1", ";">>,
      <<" ", "\t", "\r", "\n", " ">> }

\* ------------------------------------------------------ the lexer driver

\* Lexer::new: the lexer owns a fresh Cursor over the source.
Init ==
    /\ \/ src \in ExampleSources
       \/ src \in ShortSources
       \/ src \in SingleCharSources
       \/ src \in KeywordSources
    /\ cursor = new(src)
    /\ calls = <<>>
    /\ status = "ready"
    /\ kwval = <<>>

\* One call of Lexer::next by the driver, which logs what it got.
LexerNext ==
    /\ status = "ready"
    /\ Len(calls) < MaxCalls
    /\ LET r == next(cursor)
       IN  /\ cursor' = r.cur
           /\ calls' = Append(calls, [pre |-> cursor, ret |-> r.ret,
                                      post |-> r.cur, panic |-> r.panic])
           /\ status' = IF r.panic THEN "panicked" ELSE "ready"
    /\ UNCHANGED <<src, kwval>>

Next == LexerNext

Spec == Init /\ [][Next]_vars

\* ------------------------------------------------ the keyword table probe

\* A probe value: a Keyword tag, a spelling, or the KeywordErr of from_str.
TagVal(k) == [kind |-> "tag", tag |-> k, str |-> <<>>]
StrVal(s) == [kind |-> "str", tag |-> "", str |-> s]
ErrVal == [kind |-> "err", tag |-> "", str |-> <<>>]

\* The spellings of the arms of from_str and of as_str.
FromStrSpellings == {FromStrArms[i][1] : i \in 1..Len(FromStrArms)}
AsStrSpellings == {AsStrArms[i][2] : i \in 1..Len(AsStrArms)}

\* Strings handed to from_str: every spelling, every proper prefix of one,
\* every spelling continued by one character, and every spelling with its
\* first letter replaced by a capital.
KwStrings ==
    LET spellings == FromStrSpellings \cup AsStrSpellings
    IN  spellings
        \cup UNION {{SubSeq(s, 1, n) : n \in 0..Len(s)} : s \in spellings}
        \cup {Append(s, ch) : s \in spellings, ch \in {"s", "_", " "}}
        \cup {<<"A">> \o Tail(s) : s \in spellings}

KwInit ==
    /\ \/ \E k \in Keyword : kwval = <<TagVal(k)>>
       \/ \E s \in KwStrings : kwval = <<StrVal(s)>>
    /\ src = <<>>
    /\ cursor = new(src)
    /\ calls = <<>>
    /\ status = "ready"

\* Keyword::as_str applied to the tag computed last.
ApplyAsStr ==
    /\ Len(kwval) <= MaxKwSteps
    /\ kwval[Len(kwval)].kind = "tag"
    /\ kwval' = Append(kwval, StrVal(as_str(kwval[Len(kwval)].tag)))
    /\ UNCHANGED <<src, cursor, calls, status>>

\* Keyword::from_str applied to the string computed last.
ApplyFromStr ==
    /\ Len(kwval) <= MaxKwSteps
    /\ kwval[Len(kwval)].kind = "str"
    /\ LET r == from_str(kwval[Len(kwval)].str)
       IN  kwval' = Append(kwval, IF r[1] = "Ok" THEN TagVal(r[2]) ELSE ErrVal)
    /\ UNCHANGED <<src, cursor, calls, status>>

KwNext == ApplyAsStr \/ ApplyFromStr

KwSpec == KwInit /\ [][KwNext]_vars

\* ------------------------------------------------- the cursor operations
\* The public operations of the cursor that need nothing but the cursor
\* (peek, unpeek, peek_get_pos, ipeek_get_pos, peek_inc, nth_char with
\* first and second, eat_while) applied in any order to a cursor over a
\* short buffer.  eat_while_cursor needs the closure of the lexer's
\* eat_comment, its one caller, and is run through it by Spec.

\* The characters of the buffers the cursor operations are applied to.
CursorAlphabet == {" ", "\n", "a", "*", "/", END_OF_FILE}

CursorSources == SeqsUpTo(CursorAlphabet, MaxLen)

\* The predicates the recognizers hand to eat_while: is_whitespace
\* (eat_whitespace), is_alphabetic (eat_boolean), c != '\n' (eat_comment)
\* and c != first for a single quote (eat_string).
CursorPreds ==
    {"is_whitespace", "is_alphabetic", "not_newline", "not_single_quote"}

\* The characters a named predicate accepts.
PredChars(pred) ==
    CASE pred = "is_whitespace" -> {ch \in Char : is_whitespace(ch)}
      [] pred = "is_alphabetic" -> {ch \in Char : is_alphabetic(ch)}
      [] pred = "not_newline" -> Char \ {"\n"}
      [] pred = "not_single_quote" -> Char \ {"'"}

\* The record of one cursor operation: its name, its argument (an amount
\* or the name of a predicate), the cursor before and after, and what it
\* returned.
CursorOp(op, n, pred, pre, post, ret) ==
    [op |-> op, n |-> n, pred |-> pred, pre |-> pre, post |-> post,
     ret |-> ret]

CursorInit ==
    /\ src \in CursorSources
    /\ cursor = new(src)
    /\ calls = <<>>
    /\ status = "ready"
    /\ kwval = <<>>

\* Cursor::peek; calls keeps the operation applied last.
CursorPeek ==
    /\ status = "ready"
    /\ LET p == peek(cursor)
       IN  /\ cursor' = p.cur
           /\ calls' = <<CursorOp("peek", 0, "", cursor, p.cur, p.ret)>>
    /\ UNCHANGED <<src, status, kwval>>

\* Cursor::peek_inc
CursorPeekInc ==
    /\ status = "ready"
    /\ \E x \in 0..MaxAmount :
           LET c1 == peek_inc(cursor, x)
           IN  /\ cursor' = c1
               /\ calls' = <<CursorOp("peek_inc", x, "", cursor, c1, <<>>)>>
    /\ UNCHANGED <<src, status, kwval>>

\* Cursor::nth_char (first and second are nth_char(0) and nth_char(1)).
CursorNthChar ==
    /\ status = "ready"
    /\ \E k \in 0..MaxAmount :
           calls' = <<CursorOp("nth_char", k, "", cursor, cursor,
                               nth_char(cursor, k))>>
    /\ UNCHANGED <<src, cursor, status, kwval>>

\* Cursor::eat_while
CursorEatWhile ==
    /\ status = "ready"
    /\ \E pred \in CursorPreds :
           LET r == eat_while(cursor, PredChars(pred))
           IN  /\ cursor' = r.cur
               /\ calls' = <<CursorOp("eat_while", 0, pred, cursor, r.cur,
                                      r.seg)>>
    /\ UNCHANGED <<src, status, kwval>>

\* Cursor::unpeek
CursorUnpeek ==
    /\ status = "ready"
    /\ \E o \in unpeek(cursor) :
           /\ cursor' = o.cur
           /\ status' = IF o.panic THEN "panicked" ELSE "ready"
           /\ calls' = <<CursorOp("unpeek", 0, "", cursor, o.cur, o.ret)>>
    /\ UNCHANGED <<src, kwval>>

\* Cursor::peek_get_pos
CursorPeekGetPos ==
    /\ status = "ready"
    /\ LET r == peek_get_pos(cursor)
       IN  /\ cursor' = r.cur
           /\ calls' = <<CursorOp("peek_get_pos", 0, "", cursor, r.cur,
                                  r.ret)>>
    /\ UNCHANGED <<src, status, kwval>>

\* Cursor::ipeek_get_pos
CursorIpeekGetPos ==
    /\ status = "ready"
    /\ \E x \in 0..MaxAmount :
           LET r == ipeek_get_pos(cursor, x)
           IN  /\ cursor' = r.cur
               /\ calls' = <<CursorOp("ipeek_get_pos", x, "", cursor, r.cur,
                                      r.ret)>>
    /\ UNCHANGED <<src, status, kwval>>

CursorNext ==
    \/ CursorPeek
    \/ CursorUnpeek
    \/ CursorPeekGetPos
    \/ CursorIpeekGetPos
    \/ CursorPeekInc
    \/ CursorNthChar
    \/ CursorEatWhile

CursorSpec == CursorInit /\ [][CursorNext]_vars

\* ---------------------------------------------------------------- claims

\* The token a call returned (the call returned Some).
Tok(i) == calls[i].ret[1]
\* Call i returned Ok(Some(token)).
ReturnedToken(i) == ~calls[i].panic /\ calls[i].ret # None
\* s without its last character.
Front(s) == SubSeq(s, 1, Len(s) - 1)
\* ASCII letter or underscore first, then letters, digits or underscores.
IdentifierShaped(w) ==
    /\ w # <<>>
    /\ w[1] = "_" \/ is_alphabetic(w[1])
    /\ \A i \in 1..Len(w) : w[i] = "_" \/ is_alphanumeric(w[i])
\* Some keyword spelling is a proper prefix of w.
HasKeywordProperPrefix(w) ==
    \E k \in Keyword :
        /\ Len(as_str(k)) < Len(w)
        /\ SubSeq(w, 1, Len(as_str(k))) = as_str(k)
\* The tokens returned so far, in order.
TokensReturned == SelectSeq(calls, LAMBDA e : ~e.panic /\ e.ret # None)

\* C1: an identifier-shaped word with a keyword spelling as proper prefix,
\* followed by one whitespace character, is returned by the first call to
\* next() as one Identifier token whose text and span are the whole word.
C1_KeywordPrefixedWordIsIdentifier ==
    ( /\ Len(src) >= 2
      /\ is_whitespace(src[Len(src)])
      /\ IdentifierShaped(Front(src))
      /\ HasKeywordProperPrefix(Front(src))
      /\ Len(calls) >= 1 )
    => /\ ~calls[1].panic
       /\ calls[1].ret = Token(0, Len(src) - 1, <<"Identifier">>,
                               Some(Front(src)))

\* C2: every keyword spelling other than `and` and `or`, followed by one
\* whitespace character, is returned by the first call to next() as a
\* Keyword token with the tag of the spelling, no text and span
\* [0, length of the spelling).
C2_KeywordThenWhitespaceIsKeyword ==
    \A k \in Keyword \ {"And", "Or"} :
        \A w \in WhitespaceChar :
            (src = Append(as_str(k), w) /\ Len(calls) >= 1)
            => /\ ~calls[1].panic
               /\ calls[1].ret = Token(0, Len(as_str(k)), <<"Keyword", k>>,
                                       None)

\* C3: a call to next() returns Ok(None) if and only if no characters
\* remained in the source when the call was made.
C3_NoneIffNothingRemained ==
    \A i \in 1..Len(calls) :
        ~calls[i].panic => (calls[i].ret = None <=> is_eof(calls[i].pre))

\* C4: once a non-empty source made only of whitespace is lexed to its end,
\* the spans of the tokens returned are contiguous and cover exactly
\* [0, length of the source).
C4_WhitespaceSpansCoverSource ==
    ( /\ src # <<>>
      /\ \A i \in 1..Len(src) : is_whitespace(src[i])
      /\ Len(calls) >= 1
      /\ is_eof(cursor) )
    => LET toks == TokensReturned
       IN  /\ toks # <<>>
           /\ toks[1].ret[1].start = 0
           /\ \A i \in 1..(Len(toks) - 1) :
                  toks[i + 1].ret[1].start = toks[i].ret[1].end
           /\ toks[Len(toks)].ret[1].end = Len(src)

\* C5: a quote character q (single or double), a body without q and a
\* closing q are returned by the first call to next() as one StringLit
\* token of the matching kind, whose text is the body and whose span is
\* [0, length of body + 2), also when the closing quote ends the source.
C5_QuotedStringTextAndSpan ==
    \A q \in {"'", "\""} :
        ( /\ Len(src) >= 2
          /\ src[1] = q
          /\ \E n \in 2..Len(src) :
                /\ src[n] = q
                /\ \A i \in 2..(n - 1) : src[i] # q
          /\ Len(calls) >= 1 )
        => LET n == CHOOSE n \in 2..Len(src) :
                        src[n] = q /\ \A i \in 2..(n - 1) : src[i] # q
           IN  /\ ~calls[1].panic
               /\ calls[1].ret =
                      Token(0, n,
                            <<"StringLit",
                              IF q = "'" THEN "Single" ELSE "Double">>,
                            Some(SubSeq(src, 2, n - 1)))

\* The position of the first newline of s, 0 when it has none.
FirstNewline(s) ==
    IF \E i \in 1..Len(s) : s[i] = "\n"
    THEN CHOOSE i \in 1..Len(s) :
             s[i] = "\n" /\ \A j \in 1..(i - 1) : s[j] # "\n"
    ELSE 0

\* C6: for `//` + text without newline + newline + identifier, successive
\* calls return a Comment token whose span ends at the newline, then a
\* Whitespace token for the newline, then an Identifier token for the
\* identifier.
C6_LineCommentNewlineIdentifier ==
    LET nl == FirstNewline(src)
    IN  ( /\ Len(src) >= 4
          /\ src[1] = "/" /\ src[2] = "/"
          /\ nl >= 3 /\ nl < Len(src)
          /\ IdentifierShaped(SubSeq(src, nl + 1, Len(src)))
          /\ Len(calls) >= 3 )
        => /\ ReturnedToken(1)
           /\ Tok(1).kind = <<"Comment">>
           /\ Tok(1).start = 0 /\ Tok(1).end = nl - 1
           /\ ReturnedToken(2)
           /\ Tok(2).kind = <<"Whitespace">>
           /\ Tok(2).start = nl - 1 /\ Tok(2).end = nl
           /\ ReturnedToken(3)
           /\ Tok(3).kind = <<"Identifier">>
           /\ Tok(3).text = Some(SubSeq(src, nl + 1, Len(src)))

\* C7: each of the twelve operator characters, as the whole source, is
\* returned by the first call to next() as an Operator token whose text is
\* exactly that character (a lone `/` is an Operator, not a Comment), and
\* no further token follows it.
C7_SingleOperatorCharIsOperator ==
    \A ch \in {"+", "-", "*", "/", "%", "=", "<", ">", "&", "|", "^", "~"} :
        src = <<ch>>
        => /\ Len(calls) >= 1
              => /\ ReturnedToken(1)
                 /\ Tok(1).kind = <<"Operator">>
                 /\ Tok(1).text = Some(<<ch>>)
           /\ \A i \in 2..Len(calls) : ~calls[i].panic /\ calls[i].ret = None

\* C7 witness: the lone `/` was lexed and came back as an Operator.
C7_Witness ==
    /\ src = <<"/">>
    /\ Len(calls) >= 2
    /\ ReturnedToken(1)
    /\ Tok(1).kind = <<"Operator">>
    /\ Tok(1).text = Some(<<"/">>)
    /\ calls[2].ret = None

\* The token kinds whose text is the full matched lexeme.
FullLexemeKinds ==
    { <<"Whitespace">>, <<"Comment">>, <<"Operator">>, <<"Identifier">>,
      <<"Boolean">>, <<"Colon">>, <<"Accessor", "StaticMember">> }

\* C8: every token returned whose text is the full matched lexeme has
\* span.end - span.start equal to the length of its text.
C8_SpanLengthIsTextLength ==
    \A i \in 1..Len(calls) :
        (ReturnedToken(i) /\ Tok(i).kind \in FullLexemeKinds)
        => /\ Tok(i).text # None
           /\ Tok(i).end - Tok(i).start = Len(Tok(i).text[1])

\* C9: every call to next() completes and returns a result; none panics,
\* and a string literal opened with a backtick is handled without a crash.
C9_NextNeverPanics ==
    /\ status # "panicked"
    /\ \A i \in 1..Len(calls) : ~calls[i].panic

\* C10: the Keyword tag/spelling mapping is a bijection: from_str(as_str(k))
\* is Ok(k) for every tag k, no two tags share a spelling, and whenever
\* from_str(s) is Ok(k), as_str(k) is s (so a string that is no spelling
\* yields KeywordErr).
C10_KeywordMappingIsBijection ==
    /\ \A i \in 1..(Len(kwval) - 2) :
           kwval[i].kind = "tag" => kwval[i + 2] = kwval[i]
    /\ \A i \in 1..(Len(kwval) - 1) :
           (kwval[i].kind = "tag" /\ kwval[i + 1].kind = "str")
           => \A k \in Keyword :
                  as_str(k) = kwval[i + 1].str => k = kwval[i].tag
    /\ \A i \in 1..(Len(kwval) - 2) :
           (kwval[i].kind = "str" /\ kwval[i + 1].kind = "tag")
           => kwval[i + 2] = kwval[i]
    /\ \A i \in 1..(Len(kwval) - 1) :
           (kwval[i].kind = "str" /\ kwval[i].str \notin AsStrSpellings)
           => kwval[i + 1] = ErrVal

\* C10 witness: a tag went through as_str and from_str and came back, here
\* the tag declared last.
C10_Witness ==
    /\ Len(kwval) = 3
    /\ kwval[1] = TagVal("From")
    /\ kwval[2] = StrVal(<<"f", "r", "o", "m">>)
    /\ kwval[3] = TagVal("From")

\* w is a prefix of s.
IsPrefix(w, s) == Len(w) <= Len(s) /\ SubSeq(s, 1, Len(w)) = w

\* C11: nth_char(k) (first and second are nth_char(0) and nth_char(1))
\* returns the character at offset k when at least k + 1 characters
\* remain and fails with the end-of-stream error otherwise, and the
\* recognizers take exactly that failure, not the sentinel character, for
\* the end of input.
C11_LookaheadFailsAtEndOnly ==
    \A i \in 1..Len(calls) :
        calls[i].op = "nth_char"
        => LET pre == calls[i].pre
               k == calls[i].n
           IN  /\ k < Len(pre.chars) => calls[i].ret = Ok(pre.chars[k + 1])
               /\ k >= Len(pre.chars) => calls[i].ret = UnexpectedEof
               /\ is_end_of_file(char_of(nth_char(pre, k)))
                      <=> calls[i].ret = UnexpectedEof

\* C12: after any sequence of cursor operations the position that stamps
\* token spans (get_pos) is the length of the buffer minus the length of
\* the remaining input, also once the last character is consumed.
C12_PositionIsConsumedCount ==
    /\ get_pos(cursor) = eaten(cursor)
    /\ \A i \in 1..Len(calls) : get_pos(calls[i].post) = eaten(calls[i].post)

\* C13: every token returned has 0 <= start <= end <= length of the
\* source, and starts no earlier than the end of the tokens returned
\* before it.
C13_SpansOrderedWithinSource ==
    \A i \in 1..Len(calls) :
        ReturnedToken(i)
        => /\ 0 <= Tok(i).start
           /\ Tok(i).start <= Tok(i).end
           /\ Tok(i).end <= Len(src)
           /\ \A j \in 1..(i - 1) :
                  ReturnedToken(j) => Tok(j).end <= Tok(i).start

\* C13 witness: two tokens were returned one after the other, the first of
\* them not empty.
C13_Witness ==
    /\ Len(calls) >= 2
    /\ ReturnedToken(1) /\ ReturnedToken(2)
    /\ Tok(1).start = 0 /\ Tok(1).end > 0
    /\ Tok(2).start = Tok(1).end /\ Tok(2).end > Tok(2).start

\* Every recognizer that eat tries on cursor c and that declines leaves the
\* cursor as it found it.  A recognizer is tried when all before it
\* declined; eat_reserved only looks ahead.
DecliningLeavesCursor(c) ==
    LET ws == eat_whitespace(c)
        cm == eat_comment(ws.cur)
        op == eat_operator(cm.cur)
        kw == eat_keyword(op.cur)
        bo == eat_boolean(kw.cur)
        id == eat_identifier(bo.cur)
        nu == eat_number(id.cur)
        st == eat_string(nu.cur)
        vr == eat_value_reserved(st.cur)
    IN  /\ ws.ret = None => ws.cur = c
        /\ (ws.ret = None /\ cm.ret = None) => cm.cur = ws.cur
        /\ (ws.ret = None /\ cm.ret = None /\ op.ret = None)
               => op.cur = cm.cur
        /\ (ws.ret = None /\ cm.ret = None /\ op.ret = None
               /\ kw.ret = None)
               => kw.cur = op.cur
        /\ (ws.ret = None /\ cm.ret = None /\ op.ret = None
               /\ kw.ret = None /\ bo.ret = None)
               => bo.cur = kw.cur
        /\ (ws.ret = None /\ cm.ret = None /\ op.ret = None
               /\ kw.ret = None /\ bo.ret = None /\ id.ret = None)
               => id.cur = bo.cur
        /\ (ws.ret = None /\ cm.ret = None /\ op.ret = None
               /\ kw.ret = None /\ bo.ret = None /\ id.ret = None
               /\ nu.ret = None)
               => nu.cur = id.cur
        /\ (ws.ret = None /\ cm.ret = None /\ op.ret = None
               /\ kw.ret = None /\ bo.ret = None /\ id.ret = None
               /\ nu.ret = None /\ st.ret = None /\ ~st.panic)
               => st.cur = nu.cur
        /\ (ws.ret = None /\ cm.ret = None /\ op.ret = None
               /\ kw.ret = None /\ bo.ret = None /\ id.ret = None
               /\ nu.ret = None /\ st.ret = None /\ ~st.panic
               /\ vr.ret = None)
               => vr.cur = st.cur

\* C14: within one call to next(), a recognizer that declines leaves the
\* cursor position and the remaining input as they were before it was
\* tried.
C14_DecliningRecognizerLeavesCursor ==
    \A i \in 1..Len(calls) : DecliningLeavesCursor(calls[i].pre)

\* The position of the `*` of the first `*/` after an opening `/*`, 0 when
\* there is none.
FirstBlockEnd(s) ==
    LET ends == {n \in 3..(Len(s) - 1) : s[n] = "*" /\ s[n + 1] = "/"}
    IN  IF ends = {} THEN 0
        ELSE CHOOSE n \in ends : \A m \in ends : n <= m

\* C15: when the input at the cursor starts with `/*` and holds a later
\* `*/`, next() returns a Comment token that ends right after the first
\* `*/`, and what follows it is left for the following calls.
C15_BlockCommentEndsAtFirstClose ==
    \A i \in 1..Len(calls) :
        LET s == calls[i].pre.chars
            n == FirstBlockEnd(s)
        IN  (IsPrefix(<<"/", "*">>, s) /\ n > 0)
            => /\ ReturnedToken(i)
               /\ Tok(i).kind = <<"Comment">>
               /\ calls[i].post.chars = SubSeq(s, n + 2, Len(s))

\* C16: when the input at the cursor is `true` or `false` followed by a
\* whitespace character or the end of input, next() returns a Boolean
\* token whose text is that word; a word differing in case is not lexed
\* as Boolean.
C16_BooleanLiteralIsBoolean ==
    \A i \in 1..Len(calls) :
        LET s == calls[i].pre.chars
        IN  /\ \A j \in 1..Len(BooleanValues) :
                   LET word == BooleanValues[j]
                   IN  ( /\ IsPrefix(word, s)
                         /\ \/ Len(s) = Len(word)
                            \/ is_whitespace(s[Len(word) + 1]) )
                       => /\ ReturnedToken(i)
                          /\ Tok(i).kind = <<"Boolean">>
                          /\ Tok(i).text = Some(word)
            /\ (ReturnedToken(i) /\ Tok(i).kind = <<"Boolean">>)
                   => \E j \in 1..Len(BooleanValues) :
                          IsPrefix(BooleanValues[j], s)

\* C17: when the input at the cursor is `or` or `and` followed by a
\* whitespace character, next() returns an Operator token with that text,
\* consuming exactly the characters of the word, and the next call returns
\* the whitespace that follows as a Whitespace token.
C17_WordOperatorConsumesTheWord ==
    \A i \in 1..Len(calls) :
        \A word \in {<<"o", "r">>, <<"a", "n", "d">>} :
            LET s == calls[i].pre.chars
            IN  ( /\ IsPrefix(word, s)
                  /\ Len(s) > Len(word)
                  /\ is_whitespace(s[Len(word) + 1]) )
                => /\ ReturnedToken(i)
                   /\ Tok(i).kind = <<"Operator">>
                   /\ Tok(i).text = Some(word)
                   /\ calls[i].post.chars = SubSeq(s, Len(word) + 1, Len(s))
                   /\ i < Len(calls)
                          => /\ ReturnedToken(i + 1)
                             /\ Tok(i + 1).kind = <<"Whitespace">>

\* The length of the longest prefix of s whose characters are all in P.
LongestPrefixLen(s, P) ==
    CHOOSE n \in 0..Len(s) :
        /\ \A j \in 1..n : s[j] \in P
        /\ n = Len(s) \/ s[n + 1] \notin P

\* C18: eat_while(pred) consumes exactly the longest prefix of the
\* remaining input whose characters all satisfy pred and returns that
\* prefix, character for character (the empty string, cursor unmoved, when
\* there is none), also when the prefix reaches the end of the buffer.
C18_EatWhileReturnsLongestPrefix ==
    \A i \in 1..Len(calls) :
        calls[i].op = "eat_while"
        => LET s == calls[i].pre.chars
               n == LongestPrefixLen(s, PredChars(calls[i].pred))
           IN  /\ calls[i].ret = SubSeq(s, 1, n)
               /\ calls[i].post.chars = SubSeq(s, n + 1, Len(s))
               /\ n = 0 => calls[i].post = calls[i].pre

\* C19: each call to next() made while input remains consumes at least one
\* character, so the end of input is reached after at most as many calls
\* as the source has characters, and the driver loop stops: no call
\* follows a call made at the end of input.
C19_DriverConsumesAndStops ==
    /\ \A i \in 1..Len(calls) :
           (~calls[i].panic /\ ~is_eof(calls[i].pre))
           => Len(calls[i].post.chars) < Len(calls[i].pre.chars)
    /\ (status = "ready" /\ Len(calls) >= Len(src)) => is_eof(cursor)
    /\ \A i \in 1..(Len(calls) - 1) : ~is_eof(calls[i].pre)

====
